---- MODULE Spec2Model ----
(***************************************************************************)
(* Risk evaluation pipeline of Veritas-AI: the email checker               *)
(* (src/lib/generate-pdf.ts, POST /api/check-email) and the URL checker    *)
(* (src/app/api/check-url/route.ts, POST /api/check-url).                  *)
(*                                                                         *)
(* An identifier is represented by the rule conditions that hold of it:    *)
(* `fired` is the sorted sequence of indices (into the rule table of the   *)
(* variant) of the conditions that are true, an index occurring once per   *)
(* match of a rule that can match several times.  Time is counted in       *)
(* whole seconds.                                                          *)
(***************************************************************************)
EXTENDS Integers, Sequences, FiniteSets, TLC

VARIABLES
    apiKey,       \* process.env.GOOGLE_GENERATIVE_AI_API_KEY is set
    pc,           \* position of the request handler
    variant,      \* "email" | "url" | "none" (no request yet)
    valid,        \* the request body passed the zod schema
    ident,        \* the identifier of the request
    localResult,  \* result of the local scorer
    analyzed,     \* what the local scorer was applied to
    now,          \* seconds since the request arrived
    arbiter,      \* the generateObject call and how the gateway call ended
    arbCalls,     \* number of generateObject calls issued
    timers,       \* the setTimeout deadlines of the request
    resolver,     \* state of resolveURLRedirects
    redirectInfo, \* redirectInfo of POST /api/check-url
    response,     \* the HTTP response of the request
    extraction,   \* state of an extractArticle call and the environment it reads
    history       \* the 'analyses' object store and the calls in flight on it

vars == <<apiKey, pc, variant, valid, ident, localResult, analyzed, now,
          arbiter, arbCalls, timers, resolver, redirectInfo, response,
          extraction, history>>

(***************************************************************************)
(* Bounds of the model.                                                    *)
(***************************************************************************)
\* most rule matches of an identifier given to the scorer alone
MaxFired == 3
\* most rule matches of an identifier sent through a request
MaxFiredPipe == 1

Min2(a, b) == IF a < b THEN a ELSE b

(***************************************************************************)
(* Rule tables.  weight: what one match adds to the score; max: how many   *)
(* indicators the rule can push for one identifier.                        *)
(***************************************************************************)
Rule(n, w, m) == [name |-> n, weight |-> w, max |-> m]

\* performLocalSpamDetection, rules in evaluation order
EmailRules == <<
    Rule("disposable", 50, 1),
    Rule("corporateImpersonation", 45, 1),
    Rule("typosquatExact", 75, 1),
    Rule("typosquatFuzzy", 55, 1),
    Rule("comboDomain", 45, 3),
    Rule("keyboardProximity", 50, 1),
    Rule("substitution", 40, 4),
    Rule("homoglyphAttack", 50, 1),
    Rule("homoglyphPattern", 30, 3),
    Rule("suspiciousKeywords", 10, 29),
    Rule("becExecutive", 25, 1),
    Rule("becFinance", 20, 1),
    Rule("becTransaction", 25, 1),
    Rule("consecutiveNumbers", 25, 1),
    Rule("repeatingChars", 20, 1),
    Rule("suspiciousTLD", 35, 1),
    Rule("urlShortenerDomain", 30, 1),
    Rule("complexDomain", 25, 1),
    Rule("subdomainConfusion", 65, 1),
    Rule("suspiciousSuffix", 40, 1),
    Rule("brandInSubdomain", 50, 1),
    Rule("brandHyphen", 35, 1),
    Rule("shortUsername", 20, 1),
    Rule("longUsername", 15, 1),
    Rule("genericUsername", 20, 1),
    Rule("proDomainMismatch", 25, 1),
    Rule("aliasing", 15, 1),
    Rule("consecutiveSpecial", 15, 1),
    Rule("punycode", 60, 1),
    Rule("ipDomain", 80, 1),
    Rule("serviceId", 30, 1),
    Rule("expiredDomain", 45, 5),
    Rule("excessiveHyphens", 35, 1),
    Rule("mixedCaseDomain", 25, 1),
    Rule("vowellessDomain", 30, 1) >>

\* performLocalURLAnalysis, rules in evaluation order
UrlRules == <<
    Rule("noHttps", 50, 1),
    Rule("ipAddress", 80, 1),
    Rule("urlShortener", 40, 1),
    Rule("highRiskTLD", 35, 1),
    Rule("brandImpersonation", 60, 15),
    Rule("subdomainConfusion", 70, 1),
    Rule("excessiveHyphens", 30, 1),
    Rule("complexSubdomain", 25, 1),
    Rule("phishingKeywords", 35, 1),
    Rule("longPath", 20, 1),
    Rule("randomString", 25, 1),
    Rule("redirectParameters", 30, 1),
    Rule("punycode", 60, 1),
    Rule("atSymbol", 70, 1),
    Rule("unusualPort", 35, 1),
    Rule("executableFile", 75, 1),
    Rule("dataUrl", 45, 1),
    Rule("javascriptUrl", 90, 1) >>

RuleIndex(rules, n) == CHOOSE i \in DOMAIN rules : rules[i].name = n

Hits(fired, r) == Cardinality({i \in DOMAIN fired : fired[i] = r})

Indicator(r, w) == [rule |-> r, weight |-> w]

Repeat(x, n) == [i \in 1..n |-> x]

RECURSIVE SumWeights(_)
SumWeights(inds) ==
    IF inds = <<>> THEN 0 ELSE Head(inds).weight + SumWeights(Tail(inds))

Reason(m, k) == [msg |-> m, n |-> k]

(***************************************************************************)
(* Lexical feature extraction of the email checker.                        *)
(***************************************************************************)
\* String.prototype.toLowerCase: whether the result still has an uppercase
\* letter, given whether the argument has one
toLowerCase(hasUpper) == FALSE

\* const emailLower = email.toLowerCase(); [username, domain] = emailLower.split("@")
EmailFeatures(email) ==
    [emptyPart   |-> email.emptyPart,
     domainUpper |-> toLowerCase(email.upperDomain),
     fired       |-> email.fired]

\* number of matches of rule r on the extracted features
EmailHits(feat, r) ==
    IF EmailRules[r].name = "mixedCaseDomain"
    THEN (IF feat.domainUpper THEN 1 ELSE 0)
    ELSE Min2(Hits(feat.fired, r), EmailRules[r].max)

\* what rule r pushes: one indicator per match, each adding the rule's weight;
\* the keyword rule pushes one indicator adding min(matches * 10, 40)
EmailRuleIndicators(feat, r) ==
    LET h == EmailHits(feat, r)
    IN  IF EmailRules[r].name = "suspiciousKeywords"
        THEN (IF h > 0 THEN <<Indicator(r, Min2(h * EmailRules[r].weight, 40))>>
                       ELSE <<>>)
        ELSE Repeat(Indicator(r, EmailRules[r].weight), h)

RECURSIVE RunEmailRules(_, _, _)
RunEmailRules(feat, r, acc) ==
    IF r > Len(EmailRules) THEN acc
    ELSE LET inds == EmailRuleIndicators(feat, r)
         IN  RunEmailRules(feat, r + 1,
                 [acc EXCEPT !.indicators = @ \o inds,
                             !.spamScore  = @ + SumWeights(inds)])

\* the clamp left out
EmailNormalize_NoClamp(raw) == raw

\* spamScore = Math.min(spamScore, 100)
EmailNormalize(raw) == Min2(raw, 100)

\* the two band labels exchanged
EmailRiskLevel_Swapped(s) ==
    IF s >= 65 THEN "risky" ELSE IF s >= 35 THEN "invalid" ELSE "safe"

\* riskLevel of the email scorer
EmailRiskLevel(s) ==
    IF s >= 65 THEN "invalid" ELSE IF s >= 35 THEN "risky" ELSE "safe"

\* >= in place of >
EmailIsSpam_AtLeast(s) == s >= 35

\* isSpam: spamScore > 35
EmailIsSpam(s) == s > 35

EmailReason(inds) ==
    IF Len(inds) = 0 THEN Reason("Email appears legitimate", 0)
    ELSE Reason("Detected risk indicator(s)", Len(inds))

performLocalSpamDetection(email) ==
    LET feat == EmailFeatures(email)
    IN  IF feat.emptyPart
        THEN [email      |-> email,
              isSpam     |-> TRUE,
              riskLevel  |-> "invalid",
              spamScore  |-> 100,
              indicators |-> <<Indicator(0, 0)>>,
              reason     |-> Reason("Email format is invalid", 0)]
        ELSE LET acc == RunEmailRules(feat, 1, [indicators |-> <<>>, spamScore |-> 0])
                 s   == EmailNormalize(acc.spamScore)
             IN  [email      |-> email,
                  isSpam     |-> EmailIsSpam(s),
                  riskLevel  |-> EmailRiskLevel(s),
                  spamScore  |-> s,
                  indicators |-> acc.indicators,
                  reason     |-> EmailReason(acc.indicators)]

(***************************************************************************)
(* The URL scorer.                                                         *)
(***************************************************************************)
UrlRuleIndicators(url, r) ==
    Repeat(Indicator(r, UrlRules[r].weight), Min2(Hits(url.fired, r), UrlRules[r].max))

RECURSIVE RunUrlRules(_, _, _)
RunUrlRules(url, r, acc) ==
    IF r > Len(UrlRules) THEN acc
    ELSE LET inds == UrlRuleIndicators(url, r)
         IN  RunUrlRules(url, r + 1,
                 [acc EXCEPT !.indicators = @ \o inds,
                             !.riskScore  = @ + SumWeights(inds)])

\* riskScore = Math.min(riskScore, 100)
UrlNormalize(raw) == Min2(raw, 100)

\* riskLevel of the URL scorer
UrlRiskLevel(s) ==
    IF s >= 60 THEN "dangerous" ELSE IF s >= 30 THEN "suspicious" ELSE "safe"

\* <= in place of <
UrlIsSafe_Inclusive(s) == s <= 30

\* isSafe: riskScore < 30
UrlIsSafe(s) == s < 30

UrlReason(inds) ==
    IF Len(inds) = 0 THEN Reason("URL appears safe - no red flags detected", 0)
    ELSE Reason("Detected security concern(s)", Len(inds))

performLocalURLAnalysis(url) ==
    IF url.parseFails
    THEN [url        |-> url.id,
          isSafe     |-> FALSE,
          riskLevel  |-> "dangerous",
          riskScore  |-> 100,
          indicators |-> <<Indicator(0, 0)>>,
          reason     |-> Reason("URL parsing failed - potentially malformed or malicious", 0)]
    ELSE LET acc == RunUrlRules(url, 1, [indicators |-> <<>>, riskScore |-> 0])
             s   == UrlNormalize(acc.riskScore)
         IN  [url        |-> url.id,
              isSafe     |-> UrlIsSafe(s),
              riskLevel  |-> UrlRiskLevel(s),
              riskScore  |-> s,
              indicators |-> acc.indicators,
              reason     |-> UrlReason(acc.indicators)]

(***************************************************************************)
(* The identifiers the model draws.                                        *)
(***************************************************************************)
\* s with rule index r inserted, kept sorted
InsertSorted(s, r) ==
    LET k == Cardinality({i \in DOMAIN s : s[i] <= r})
    IN  SubSeq(s, 1, k) \o <<r>> \o SubSeq(s, k + 1, Len(s))

Has(rules, fired, n) == Hits(fired, RuleIndex(rules, n)) > 0

\* combinations of email rule conditions one address can satisfy
RealisableEmail(fired) ==
    /\ \A r \in DOMAIN EmailRules : Hits(fired, r) <= EmailRules[r].max
    /\ ~Has(EmailRules, fired, "mixedCaseDomain")
    /\ Has(EmailRules, fired, "ipDomain") => Has(EmailRules, fired, "complexDomain")
    /\ ~(Has(EmailRules, fired, "shortUsername") /\ Has(EmailRules, fired, "longUsername"))
    /\ Has(EmailRules, fired, "proDomainMismatch")
          => Has(EmailRules, fired, "suspiciousKeywords")

\* combinations of URL rule conditions one URL can satisfy
RealisableUrl(fired) ==
    /\ \A r \in DOMAIN UrlRules : Hits(fired, r) <= UrlRules[r].max
    /\ Has(UrlRules, fired, "dataUrl") => Has(UrlRules, fired, "noHttps")
    /\ Has(UrlRules, fired, "javascriptUrl") => Has(UrlRules, fired, "noHttps")
    /\ ~(Has(UrlRules, fired, "dataUrl") /\ Has(UrlRules, fired, "javascriptUrl"))

\* sorted sequences of at most k indices of 1..n
SortedSeqs(n, k) ==
    UNION {{s \in [1..m -> 1..n] : \A i \in 1..(m - 1) : s[i] <= s[i + 1]} : m \in 0..k}

EmailFired(k) == {f \in SortedSeqs(Len(EmailRules), k) : RealisableEmail(f)}
UrlFired(k)   == {f \in SortedSeqs(Len(UrlRules), k) : RealisableUrl(f)}

\* the rule conditions the identifiers of whole requests are drawn from: for
\* each scorer, rules whose weights land in each of its three bands, and for
\* the email scorer one whose weight is the lower edge of the risky band
PipeEmailRules == {"aliasing", "suspiciousTLD", "disposable", "typosquatExact"}
PipeUrlRules   == {"longPath", "urlShortener", "noHttps", "ipAddress"}

PipeEmailFired ==
    {f \in EmailFired(MaxFiredPipe) :
        \A i \in DOMAIN f : EmailRules[f[i]].name \in PipeEmailRules}
PipeUrlFired ==
    {f \in UrlFired(MaxFiredPipe) :
        \A i \in DOMAIN f : UrlRules[f[i]].name \in PipeUrlRules}

Email(e, u, f) == [emptyPart |-> e, upperDomain |-> u, fired |-> f]
Url(i, p, f)   == [id |-> i, parseFails |-> p, fired |-> f]

NoIdent    == [none |-> TRUE]
NoResult   == [none |-> TRUE]
NoResponse == [status |-> 0, body |-> [none |-> TRUE]]
\* a deadline of -1: the timer is not armed
NoTimers   == [race |-> -1, hop |-> -1, inner |-> -1, outer |-> -1]
\* probes, last and abandoned are history: the fetches issued, how the last
\* one settled, and whether POST's race was lost to the timer
NoProbe    == [kind |-> "none", target |-> -1]
NoResolver == [rpc |-> "idle", redirectChain |-> <<>>, currentUrl |-> -1,
               attempts |-> 0, startTime |-> 0, isShortened |-> FALSE,
               probes |-> 0, last |-> NoProbe, abandoned |-> FALSE]
NoRedirect == [finalUrl |-> -1, redirectChain |-> <<>>, isShortened |-> FALSE]
\* process.env as the extractor reads it
Env(serverless, jinaKey, firecrawlKey) ==
    [serverless |-> serverless, jinaKey |-> jinaKey, firecrawlKey |-> firecrawlKey]

Envs == {Env(s, j, f) : s \in BOOLEAN, j \in BOOLEAN, f \in BOOLEAN}

\* no call yet; called and result are history: the methods invoked so far, in
\* order, and the method whose article was returned
IdleExtraction(env) ==
    [pc |-> "idle", env |-> env, url |-> "none", methods |-> <<>>, next |-> 0,
     errors |-> <<>>, called |-> <<>>, result |-> "none", thrown |-> "none"]

NoExtraction == IdleExtraction(Env(FALSE, FALSE, FALSE))

\* the two places history calls are made from at the same time
Callers == {"first", "second"}

NoRecord == [starred |-> FALSE, tags |-> <<>>, notes |-> ""]

NoCall == [pc |-> "idle", op |-> "none", arg |-> "none", record |-> NoRecord,
           overlapped |-> FALSE]

NoLast == [op |-> "none", arg |-> "none", overlapped |-> FALSE, wrote |-> FALSE]

\* the history store before saveAnalysis: `saved` and `record` are the
\* 'analyses' entry, `calls` the calls in flight with the copy each one read,
\* `started` the number of calls made, `last` the call that completed last
NoHistory ==
    [saved |-> FALSE, record |-> NoRecord, calls |-> [c \in Callers |-> NoCall],
     started |-> 0, last |-> NoLast]
NoArbiter  == [call |-> "idle", ended |-> "none",
               outcome |-> [kind |-> "none", verdict |-> "none",
                            explanation |-> [msg |-> "", n |-> 0]]]

(***************************************************************************)
(* The local scorers on their own: an identifier gains rule matches one at *)
(* a time and is scored again after each.                                  *)
(***************************************************************************)
ScorerInit ==
    /\ apiKey = FALSE
    /\ pc = "scorer"
    /\ variant \in {"email", "url"}
    /\ valid = TRUE
    /\ \/ /\ variant = "email"
          /\ \E e \in BOOLEAN, u \in BOOLEAN : ident = Email(e, u, <<>>)
       \/ /\ variant = "url"
          /\ \E p \in BOOLEAN : ident = Url(0, p, <<>>)
    /\ localResult = IF variant = "email" THEN performLocalSpamDetection(ident)
                                          ELSE performLocalURLAnalysis(ident)
    /\ analyzed = ident
    /\ now = 0
    /\ arbiter = NoArbiter
    /\ arbCalls = 0
    /\ timers = NoTimers
    /\ resolver = NoResolver
    /\ redirectInfo = NoRedirect
    /\ response = NoResponse
    /\ extraction = NoExtraction
    /\ history = NoHistory

ScoreEmailWithMatch(r) ==
    /\ pc = "scorer"
    /\ variant = "email"
    /\ ~ident.emptyPart
    /\ Len(ident.fired) < MaxFired
    /\ RealisableEmail(InsertSorted(ident.fired, r))
    /\ ident' = [ident EXCEPT !.fired = InsertSorted(ident.fired, r)]
    /\ localResult' = performLocalSpamDetection(ident')
    /\ analyzed' = ident'
    /\ UNCHANGED <<apiKey, pc, variant, valid, now, arbiter, arbCalls, timers,
                   resolver, redirectInfo, response>>
    /\ UNCHANGED <<extraction, history>>

ScoreUrlWithMatch(r) ==
    /\ pc = "scorer"
    /\ variant = "url"
    /\ ~ident.parseFails
    /\ Len(ident.fired) < MaxFired
    /\ RealisableUrl(InsertSorted(ident.fired, r))
    /\ ident' = [ident EXCEPT !.fired = InsertSorted(ident.fired, r)]
    /\ localResult' = performLocalURLAnalysis(ident')
    /\ analyzed' = ident'
    /\ UNCHANGED <<apiKey, pc, variant, valid, now, arbiter, arbCalls, timers,
                   resolver, redirectInfo, response>>
    /\ UNCHANGED <<extraction, history>>

ScorerNext ==
    \/ \E r \in DOMAIN EmailRules : ScoreEmailWithMatch(r)
    \/ \E r \in DOMAIN UrlRules : ScoreUrlWithMatch(r)

ScorerSpec == ScorerInit /\ [][ScorerNext]_vars

(***************************************************************************)
(* What the external collaborators can answer.                             *)
(***************************************************************************)
Text(m) == Reason(m, 0)

Json(status, body) == [status |-> status, body |-> body]

EmailVerdicts == {"legitimate", "suspicious", "fake"}
UrlVerdicts   == {"safe", "suspicious", "dangerous"}

\* how generateObject can reject: "unavailable" (the service fails),
\* "timeout" (an AbortError, or an error whose message contains 'timeout'),
\* "schema" (the answer does not satisfy AnalysisSchema, e.g. a verdict
\* outside the enum)
ArbiterErrors == {"unavailable", "timeout", "schema"}

Outcome(k, v) ==
    [kind |-> k, verdict |-> v,
     explanation |-> IF k = "object" THEN Text("(explanation written by the arbiter)")
                                     ELSE Text("")]

NoOutcome == Outcome("none", "none")

EmailOutcomes ==
    {Outcome("object", v) : v \in EmailVerdicts} \cup {Outcome(k, "none") : k \in ArbiterErrors}
UrlOutcomes ==
    {Outcome("object", v) : v \in UrlVerdicts} \cup {Outcome(k, "none") : k \in ArbiterErrors}

Pending == [call |-> "pending", ended |-> "none", outcome |-> NoOutcome]

Settled(o) ==
    [call |-> "settled",
     ended |-> IF o.kind = "object" THEN "answered" ELSE "failed",
     outcome |-> o]

(***************************************************************************)
(* POST /api/check-email.                                                  *)
(***************************************************************************)
\* the catch block throwing the error on
getGeminiAnalysis_Rethrow(hasKey, o) ==
    IF ~hasKey
    THEN [threw |-> FALSE, verdict |-> "suspicious",
          explanation |-> Text("API key not configured. Please set GOOGLE_GENERATIVE_AI_API_KEY environment variable.")]
    ELSE IF o.kind = "object"
    THEN [threw |-> FALSE, verdict |-> o.verdict, explanation |-> o.explanation]
    ELSE [threw |-> TRUE, verdict |-> "none", explanation |-> Text("")]

\* getGeminiAnalysis, given how generateObject settled
getGeminiAnalysis(hasKey, o) ==
    IF ~hasKey
    THEN [threw |-> FALSE, verdict |-> "suspicious",
          explanation |-> Text("API key not configured. Please set GOOGLE_GENERATIVE_AI_API_KEY environment variable.")]
    ELSE IF o.kind = "object"
    THEN [threw |-> FALSE, verdict |-> o.verdict, explanation |-> o.explanation]
    ELSE [threw |-> FALSE, verdict |-> "suspicious",
          explanation |-> Text("AI analysis encountered an error. Please try again.")]

\* the middle tier forgotten
EmailBandVerdict_NoMiddle(riskLevel) ==
    IF riskLevel = "invalid" THEN "fake" ELSE "legitimate"

\* geminiVerdict of the local-only email result
EmailBandVerdict(riskLevel) ==
    IF riskLevel = "invalid" THEN "fake"
    ELSE IF riskLevel = "risky" THEN "suspicious" ELSE "legitimate"

\* { ...localResult, aiAnalysis, geminiVerdict }
EmailLocalOnly(local) ==
    [email         |-> local.email,
     isSpam        |-> local.isSpam,
     riskLevel     |-> local.riskLevel,
     spamScore     |-> local.spamScore,
     indicators    |-> local.indicators,
     reason        |-> local.reason,
     aiAnalysis    |-> Text("API key not configured. Using local analysis only."),
     geminiVerdict |-> EmailBandVerdict(local.riskLevel)]

\* the result built from the gateway's verdict
EmailFinal(email, local, g) ==
    [email         |-> email,
     isSpam        |-> (g.verdict = "fake" \/ g.verdict = "suspicious"),
     riskLevel     |-> IF g.verdict = "fake" THEN "invalid"
                       ELSE IF g.verdict = "suspicious" THEN "risky" ELSE "safe",
     spamScore     |-> IF g.verdict = "fake" THEN 85
                       ELSE IF g.verdict = "suspicious" THEN 60 ELSE 20,
     indicators    |-> local.indicators,
     reason        |-> g.explanation,
     aiAnalysis    |-> g.explanation,
     geminiVerdict |-> g.verdict]

\* request bodies: the schema accepts only addresses with both parts
EmailRequests ==
    {[wellFormed |-> TRUE, email |-> Email(FALSE, u, f)] :
        u \in BOOLEAN, f \in PipeEmailFired}
    \cup {[wellFormed |-> FALSE, email |-> Email(e, FALSE, <<>>)] : e \in BOOLEAN}

\* POST up to its first await
PostEmail(req) ==
    /\ pc = "idle"
    /\ variant' = "email"
    /\ ident' = req.email
    /\ valid' = req.wellFormed
    /\ IF ~req.wellFormed
       THEN /\ response' = Json(400, [error |-> "Invalid request"])
            /\ pc' = "done"
            /\ UNCHANGED <<localResult, analyzed, arbiter, arbCalls>>
       ELSE LET local == performLocalSpamDetection(req.email)
            IN  /\ localResult' = local
                /\ analyzed' = req.email
                /\ IF ~apiKey
                   THEN /\ response' = Json(200, EmailLocalOnly(local))
                        /\ pc' = "done"
                        /\ UNCHANGED <<arbiter, arbCalls>>
                   ELSE /\ arbiter' = Pending
                        /\ arbCalls' = arbCalls + 1
                        /\ pc' = "awaitArbiter"
                        /\ UNCHANGED response
    /\ UNCHANGED <<apiKey, now, timers, resolver, redirectInfo>>
    /\ UNCHANGED <<extraction, history>>

\* generateObject settles: getGeminiAnalysis returns and POST answers
SettleEmail(o) ==
    /\ variant = "email"
    /\ pc = "awaitArbiter"
    /\ arbiter.call = "pending"
    /\ LET g == getGeminiAnalysis(apiKey, o)
       IN  response' = IF g.threw
                       THEN Json(500, [error |-> "AI analysis failed"])
                       ELSE Json(200, EmailFinal(ident, localResult, g))
    /\ arbiter' = Settled(o)
    /\ pc' = "done"
    /\ UNCHANGED <<apiKey, variant, valid, ident, localResult, analyzed, now,
                   arbCalls, timers, resolver, redirectInfo>>
    /\ UNCHANGED <<extraction, history>>

(***************************************************************************)
(* POST /api/check-url.  URLs are numbered in the order the request meets  *)
(* them: 0 is the request's URL, the chain <<0, .., k>> holds the first    *)
(* k + 1, and a Location naming k + 1 names a URL not met before.          *)
(***************************************************************************)
maxRedirects == 5
totalTimeLimit == 5
HopTimeout == 2
RedirectRaceTimeout == 5
GeminiInnerTimeout == 18
GeminiOuterTimeout == 22

Range(q) == {q[i] : i \in DOMAIN q}

\* what one HEAD probe can settle with
ProbeResults(r) ==
    {[kind |-> "redirect", target |-> t] : t \in 0..Len(r.redirectChain)}
    \cup {[kind |-> k, target |-> -1] : k \in {"redirectNoLocation", "final", "error"}}

\* resolveURLRedirects up to its first fetch
ResolverStart(url, t) ==
    [rpc |-> "fetching", redirectChain |-> <<url.id>>, currentUrl |-> url.id,
     attempts |-> 0, startTime |-> t, isShortened |-> url.shortener,
     probes |-> 1, last |-> NoProbe, abandoned |-> FALSE]

\* how the fetch settled, for the record: a Location naming a URL of the
\* chain is a cycle
Settlement(r, res) ==
    IF res.kind = "redirect" /\ res.target \in Range(r.redirectChain)
    THEN [res EXCEPT !.kind = "cycle"] ELSE res

\* the includes() test left out: every Location is followed
ResolverAfter_FollowsRepeats(r, res, t) ==
    IF res.kind = "redirect"
    THEN LET r1 == [r EXCEPT !.redirectChain = Append(@, res.target),
                             !.currentUrl = res.target,
                             !.attempts = @ + 1,
                             !.last = Settlement(r, res)]
         IN  IF r1.attempts < maxRedirects /\ (t - r1.startTime) < totalTimeLimit
             THEN [r1 EXCEPT !.rpc = "fetching", !.probes = @ + 1]
             ELSE [r1 EXCEPT !.rpc = "returned"]
    ELSE [r EXCEPT !.rpc = "returned", !.last = Settlement(r, res)]

\* the loop condition with <= for the hop budget
ResolverAfter_OneHopMore(r, res, t) ==
    IF res.kind = "redirect" /\ res.target \notin Range(r.redirectChain)
    THEN LET r1 == [r EXCEPT !.redirectChain = Append(@, res.target),
                             !.currentUrl = res.target,
                             !.attempts = @ + 1,
                             !.last = Settlement(r, res)]
         IN  IF r1.attempts <= maxRedirects /\ (t - r1.startTime) < totalTimeLimit
             THEN [r1 EXCEPT !.rpc = "fetching", !.probes = @ + 1]
             ELSE [r1 EXCEPT !.rpc = "returned"]
    ELSE [r EXCEPT !.rpc = "returned", !.last = Settlement(r, res)]

\* a failed fetch answered by going back to the request's URL
ResolverAfter_ResetsOnFailure(r, res, t) ==
    IF res.kind = "redirect" /\ res.target \notin Range(r.redirectChain)
    THEN LET r1 == [r EXCEPT !.redirectChain = Append(@, res.target),
                             !.currentUrl = res.target,
                             !.attempts = @ + 1,
                             !.last = Settlement(r, res)]
         IN  IF r1.attempts < maxRedirects /\ (t - r1.startTime) < totalTimeLimit
             THEN [r1 EXCEPT !.rpc = "fetching", !.probes = @ + 1]
             ELSE [r1 EXCEPT !.rpc = "returned"]
    ELSE IF res.kind \in {"error", "aborted"}
    THEN [r EXCEPT !.rpc = "returned", !.last = Settlement(r, res),
                   !.currentUrl = r.redirectChain[1]]
    ELSE [r EXCEPT !.rpc = "returned", !.last = Settlement(r, res)]

\* the loop body after the fetch settled with res at time t, up to the next
\* fetch or the return
ResolverAfter(r, res, t) ==
    IF res.kind = "redirect" /\ res.target \notin Range(r.redirectChain)
    THEN LET r1 == [r EXCEPT !.redirectChain = Append(@, res.target),
                             !.currentUrl = res.target,
                             !.attempts = @ + 1,
                             !.last = Settlement(r, res)]
         IN  IF r1.attempts < maxRedirects /\ (t - r1.startTime) < totalTimeLimit
             THEN [r1 EXCEPT !.rpc = "fetching", !.probes = @ + 1]
             ELSE [r1 EXCEPT !.rpc = "returned"]
    ELSE [r EXCEPT !.rpc = "returned", !.last = Settlement(r, res)]

\* the request's URL given as the final one, as in the function's catch block
ResolverResult_OriginalFinal(r) ==
    [finalUrl |-> Head(r.redirectChain), redirectChain |-> r.redirectChain,
     isShortened |-> r.isShortened]

ResolverResult(r) ==
    [finalUrl |-> r.currentUrl, redirectChain |-> r.redirectChain,
     isShortened |-> r.isShortened]

\* getGeminiURLAnalysis, given how its race settled ("innerTimeout": its own
\* timer rejected first)
getGeminiURLAnalysis(hasKey, o) ==
    IF ~hasKey
    THEN [threw |-> FALSE, verdict |-> "suspicious",
          explanation |-> Text("API key not configured. Using local analysis only.")]
    ELSE IF o.kind = "object"
    THEN [threw |-> FALSE, verdict |-> o.verdict, explanation |-> o.explanation]
    ELSE IF o.kind \in {"timeout", "innerTimeout"}
    THEN [threw |-> FALSE, verdict |-> "suspicious",
          explanation |-> Text("AI analysis timed out. URL appears suspicious - please verify manually before clicking.")]
    ELSE [threw |-> FALSE, verdict |-> "suspicious",
          explanation |-> Text("AI analysis encountered an error. Please verify this URL manually before clicking.")]

\* a rejection of POST's race
Rejected == [threw |-> TRUE, verdict |-> "none", explanation |-> Text("")]

\* geminiVerdictData of POST: the gateway's answer, or the catch block's
UrlVerdictData(local, g) ==
    IF g.threw
    THEN [verdict |-> local.riskLevel, explanation |-> local.reason]
    ELSE [verdict |-> g.verdict, explanation |-> g.explanation]

\* push in place of unshift: the notice put last
UrlLocalResult_NoticeLast(scored, info) ==
    [scored EXCEPT !.indicators = IF info.isShortened /\ Len(info.redirectChain) > 1
                                  THEN @ \o <<Indicator(-1, 0)>>
                                  ELSE @]
    @@ [redirectChain    |-> info.redirectChain,
        finalDestination |-> info.finalUrl,
        isShortened      |-> info.isShortened]

\* localResult of POST: the scorer's result with the redirect fields set and
\* the shortened-URL notice put in front
UrlLocalResult(scored, info) ==
    [scored EXCEPT !.indicators = IF info.isShortened /\ Len(info.redirectChain) > 1
                                  THEN <<Indicator(-1, 0)>> \o @
                                  ELSE @]
    @@ [redirectChain    |-> info.redirectChain,
        finalDestination |-> info.finalUrl,
        isShortened      |-> info.isShortened]

\* { ...localResult, aiAnalysis, geminiVerdict }
UrlLocalOnly(local) ==
    [url              |-> local.url,
     isSafe           |-> local.isSafe,
     riskLevel        |-> local.riskLevel,
     riskScore        |-> local.riskScore,
     indicators       |-> local.indicators,
     reason           |-> local.reason,
     redirectChain    |-> local.redirectChain,
     finalDestination |-> local.finalDestination,
     isShortened      |-> local.isShortened,
     aiAnalysis       |-> Text("API key not configured. Using local analysis only."),
     geminiVerdict    |-> local.riskLevel]

\* isSafe taken from the local result
UrlFinal_LocalFlag(url, local, info, v) ==
    [url              |-> url.id,
     isSafe           |-> local.isSafe,
     riskLevel        |-> v.verdict,
     riskScore        |-> IF v.verdict = "dangerous" THEN 85
                          ELSE IF v.verdict = "suspicious" THEN 60 ELSE 15,
     indicators       |-> local.indicators,
     redirectChain    |-> info.redirectChain,
     finalDestination |-> info.finalUrl,
     isShortened      |-> info.isShortened,
     reason           |-> v.explanation,
     aiAnalysis       |-> v.explanation,
     geminiVerdict    |-> v.verdict]

\* the result built from geminiVerdictData
UrlFinal(url, local, info, v) ==
    [url              |-> url.id,
     isSafe           |-> v.verdict = "safe",
     riskLevel        |-> v.verdict,
     riskScore        |-> IF v.verdict = "dangerous" THEN 85
                          ELSE IF v.verdict = "suspicious" THEN 60 ELSE 15,
     indicators       |-> local.indicators,
     redirectChain    |-> info.redirectChain,
     finalDestination |-> info.finalUrl,
     isShortened      |-> info.isShortened,
     reason           |-> v.explanation,
     aiAnalysis       |-> v.explanation,
     geminiVerdict    |-> v.verdict]

\* request bodies.  known: the host is one of the listed shortener domains;
\* shortener: the host contains one of them as a substring (domain.includes)
UrlRequests ==
    {[wellFormed |-> w, url |-> [id |-> 0, shortener |-> h[1], known |-> h[2]]] :
        w \in BOOLEAN, h \in {<<FALSE, FALSE>>, <<TRUE, FALSE>>, <<TRUE, TRUE>>}}

\* what URL number id can be: the request's URL parses and is on a shortener
\* host exactly when the shortener rule holds of it
Destinations(url, id) ==
    IF id = url.id
    THEN {Url(id, FALSE, f) : f \in {g \in PipeUrlFired :
                                  Has(UrlRules, g, "urlShortener") <=> url.shortener}}
    ELSE {Url(id, FALSE, f) : f \in PipeUrlFired} \cup {Url(id, TRUE, <<>>)}

\* POST from `const urlToAnalyze` to the gateway call or the local-only answer
AnalyzeUrl(info, dest, tm) ==
    \E local \in {UrlLocalResult(performLocalURLAnalysis(dest), info)} :
        /\ redirectInfo' = info
        /\ analyzed' = dest
        /\ localResult' = local
        /\ IF ~apiKey
           THEN /\ response' = Json(200, UrlLocalOnly(local))
                /\ pc' = "done"
                /\ timers' = tm
                /\ UNCHANGED <<arbiter, arbCalls>>
           ELSE /\ arbiter' = Pending
                /\ arbCalls' = arbCalls + 1
                /\ timers' = [tm EXCEPT !.inner = now + GeminiInnerTimeout,
                                        !.outer = now + GeminiOuterTimeout]
                /\ pc' = "awaitArbiter"
                /\ UNCHANGED response

\* let redirectInfo = { finalUrl: url, redirectChain: [url], isShortened: false }
DefaultRedirectInfo(url) ==
    [finalUrl |-> url.id, redirectChain |-> <<url.id>>, isShortened |-> FALSE]

\* POST up to its first await: validation, then the resolver up to its first fetch
PostUrl(req) ==
    /\ pc = "idle"
    /\ variant' = "url"
    /\ ident' = req.url
    /\ valid' = req.wellFormed
    /\ IF ~req.wellFormed
       THEN /\ response' = Json(400, [error |-> "Invalid request"])
            /\ pc' = "done"
            /\ UNCHANGED <<timers, resolver, redirectInfo>>
       ELSE /\ resolver' = ResolverStart(req.url, now)
            /\ timers' = [timers EXCEPT !.hop = now + HopTimeout,
                                        !.race = now + RedirectRaceTimeout]
            /\ redirectInfo' = DefaultRedirectInfo(req.url)
            /\ pc' = "resolving"
            /\ UNCHANGED response
    /\ UNCHANGED <<apiKey, localResult, analyzed, now, arbiter, arbCalls>>
    /\ UNCHANGED <<extraction, history>>

\* the pending fetch of the resolver settles with res
ResolverStep(res) ==
    /\ resolver.rpc = "fetching"
    /\ LET r1 == ResolverAfter(resolver, res, now)
           tm == [timers EXCEPT !.hop = IF r1.rpc = "fetching"
                                        THEN now + HopTimeout ELSE -1]
       IN  /\ resolver' = r1
           /\ IF pc = "resolving" /\ r1.rpc = "returned"
              THEN \E dest \in Destinations(ident, r1.currentUrl) :
                       AnalyzeUrl(ResolverResult(r1), dest, tm)
              ELSE /\ timers' = tm
                   /\ UNCHANGED <<pc, redirectInfo, analyzed, localResult,
                                  arbiter, arbCalls, response>>
    /\ UNCHANGED <<apiKey, variant, valid, ident, now>>
    /\ UNCHANGED <<extraction, history>>

\* the HEAD probe answers, or fails
ProbeSettles(res) == ResolverStep(res)

\* AbortSignal.timeout(2000) aborts the probe
HopTimerFires ==
    /\ timers.hop >= 0
    /\ now >= timers.hop
    /\ ResolverStep([kind |-> "aborted", target |-> -1])
    /\ UNCHANGED <<extraction, history>>

\* the resolver awaited without the race: the timer expires unheeded
RaceTimerFires_Ignored ==
    /\ timers.race >= 0
    /\ now >= timers.race
    /\ timers' = [timers EXCEPT !.race = -1]
    /\ UNCHANGED <<apiKey, pc, variant, valid, ident, localResult, analyzed, now,
                   arbiter, arbCalls, resolver, redirectInfo, response>>
    /\ UNCHANGED <<extraction, history>>

\* the deadline taking what the resolver has found so far
RaceTimerFires_PartialChain ==
    /\ timers.race >= 0
    /\ now >= timers.race
    /\ IF pc = "resolving"
       THEN \E dest \in Destinations(ident, resolver.currentUrl) :
                AnalyzeUrl(ResolverResult(resolver), dest, [timers EXCEPT !.race = -1])
       ELSE /\ timers' = [timers EXCEPT !.race = -1]
            /\ UNCHANGED <<pc, redirectInfo, analyzed, localResult, arbiter,
                           arbCalls, response>>
    /\ resolver' = [resolver EXCEPT !.abandoned = (pc = "resolving")]
    /\ UNCHANGED <<apiKey, variant, valid, ident, now>>
    /\ UNCHANGED <<extraction, history>>

\* the 5000 ms timer racing the resolver
RaceTimerFires ==
    /\ timers.race >= 0
    /\ now >= timers.race
    /\ IF pc = "resolving"
       THEN \E dest \in Destinations(ident, redirectInfo.finalUrl) :
                AnalyzeUrl(redirectInfo, dest, [timers EXCEPT !.race = -1])
       ELSE /\ timers' = [timers EXCEPT !.race = -1]
            /\ UNCHANGED <<pc, redirectInfo, analyzed, localResult, arbiter,
                           arbCalls, response>>
    /\ resolver' = [resolver EXCEPT !.abandoned = (pc = "resolving")]
    /\ UNCHANGED <<apiKey, variant, valid, ident, now>>
    /\ UNCHANGED <<extraction, history>>

\* POST answers with the verdict data v
AnswerUrl(g) ==
    /\ response' = Json(200, UrlFinal(ident, localResult, redirectInfo,
                                      UrlVerdictData(localResult, g)))
    /\ pc' = "done"

\* generateObject settles; a settlement after the request moved on is dropped
SettleUrl(o) ==
    /\ variant = "url"
    /\ arbiter.call = "pending"
    /\ IF pc = "awaitArbiter"
       THEN /\ AnswerUrl(getGeminiURLAnalysis(apiKey, o))
            /\ arbiter' = Settled(o)
       ELSE /\ arbiter' = [arbiter EXCEPT !.call = "settled"]
            /\ UNCHANGED <<pc, response>>
    /\ UNCHANGED <<apiKey, variant, valid, ident, localResult, analyzed, now,
                   arbCalls, timers, resolver, redirectInfo>>
    /\ UNCHANGED <<extraction, history>>

\* the 18000 ms timer of getGeminiURLAnalysis
InnerTimerFires ==
    /\ timers.inner >= 0
    /\ now >= timers.inner
    /\ timers' = [timers EXCEPT !.inner = -1]
    /\ IF pc = "awaitArbiter"
       THEN /\ AnswerUrl(getGeminiURLAnalysis(apiKey, Outcome("innerTimeout", "none")))
            /\ arbiter' = [arbiter EXCEPT !.ended = "timedOut"]
       ELSE UNCHANGED <<pc, response, arbiter>>
    /\ UNCHANGED <<apiKey, variant, valid, ident, localResult, analyzed, now,
                   arbCalls, resolver, redirectInfo>>
    /\ UNCHANGED <<extraction, history>>

\* the 22000 ms timer of POST
OuterTimerFires ==
    /\ timers.outer >= 0
    /\ now >= timers.outer
    /\ timers' = [timers EXCEPT !.outer = -1]
    /\ IF pc = "awaitArbiter"
       THEN /\ AnswerUrl(Rejected)
            /\ arbiter' = [arbiter EXCEPT !.ended = "timedOut"]
       ELSE UNCHANGED <<pc, response, arbiter>>
    /\ UNCHANGED <<apiKey, variant, valid, ident, localResult, analyzed, now,
                   arbCalls, resolver, redirectInfo>>
    /\ UNCHANGED <<extraction, history>>

(***************************************************************************)
(* Time.  A timer fires no later than its deadline.  Only the resolver     *)
(* reads the clock, so the clock moves second by second while the resolver *)
(* runs and from deadline to deadline otherwise.                           *)
(***************************************************************************)
Armed == {timers[t] : t \in DOMAIN timers} \ {-1}

Earliest(S) == CHOOSE d \in S : \A e \in S : d <= e

Tick ==
    /\ Armed # {}
    /\ \A d \in Armed : d > now
    /\ now' = IF resolver.rpc = "fetching" THEN now + 1 ELSE Earliest(Armed)
    /\ UNCHANGED <<apiKey, pc, variant, valid, ident, localResult, analyzed,
                   arbiter, arbCalls, timers, resolver, redirectInfo, response>>
    /\ UNCHANGED <<extraction, history>>

Init ==
    /\ apiKey \in BOOLEAN
    /\ pc = "idle"
    /\ variant = "none"
    /\ valid = FALSE
    /\ ident = NoIdent
    /\ localResult = NoResult
    /\ analyzed = NoIdent
    /\ now = 0
    /\ arbiter = NoArbiter
    /\ arbCalls = 0
    /\ timers = NoTimers
    /\ resolver = NoResolver
    /\ redirectInfo = NoRedirect
    /\ response = NoResponse
    /\ extraction = NoExtraction
    /\ history = NoHistory

Next ==
    \/ \E req \in EmailRequests : PostEmail(req)
    \/ \E o \in EmailOutcomes : SettleEmail(o)
    \/ \E req \in UrlRequests : PostUrl(req)
    \/ \E res \in ProbeResults(resolver) : ProbeSettles(res)
    \/ HopTimerFires
    \/ RaceTimerFires
    \/ \E o \in UrlOutcomes : SettleUrl(o)
    \/ InnerTimerFires
    \/ OuterTimerFires
    \/ Tick

Spec == Init /\ [][Next]_vars

\* timers fire and time passes; nothing obliges the arbitration service or a
\* probed host to answer
Fairness ==
    /\ WF_vars(Tick)
    /\ WF_vars(HopTimerFires)
    /\ WF_vars(RaceTimerFires)
    /\ WF_vars(InnerTimerFires)
    /\ WF_vars(OuterTimerFires)

FairSpec == Spec /\ Fairness

\* The URL handler up to the end of redirect resolution, with its timers
\* firing and time passing; no probed host is obliged to answer.
ResolveNext ==
    \/ \E req \in UrlRequests : PostUrl(req)
    \/ \E res \in ProbeResults(resolver) : ProbeSettles(res)
    \/ HopTimerFires
    \/ RaceTimerFires
    \/ Tick

ResolveSpec ==
    /\ Init
    /\ [][ResolveNext]_vars
    /\ WF_vars(Tick)
    /\ WF_vars(HopTimerFires)
    /\ WF_vars(RaceTimerFires)

(***************************************************************************)
(* The email scorer on domains spelled out character by character: the     *)
(* IP-address rule and the complex-domain rule are computed from the text  *)
(* of the domain, the other rules are matches the address brings along.    *)
(***************************************************************************)
\* longest domain text
MaxDomainLen == 8

\* a digit, a letter and the label separator
DomainChars == {"1", "a", "."}

IsDigit(c) == c = "1"

\* \d{1,3} matched at position i of s: the positions right after a match
DigitRunEnds(s, i) ==
    {i + k : k \in {n \in 1..3 : /\ i + n - 1 <= Len(s)
                                 /\ \A j \in i..(i + n - 1) : IsDigit(s[j])}}

\* \d{1,3}(\.\d{1,3}){groups - 1} matched at position i of s
RECURSIVE DottedQuadFrom(_, _, _)
DottedQuadFrom(s, i, groups) ==
    \E e \in DigitRunEnds(s, i) :
        \/ groups = 1
        \/ /\ e <= Len(s)
           /\ s[e] = "."
           /\ DottedQuadFrom(s, e + 1, groups - 1)

\* /\d{1,3}\.\d{1,3}\.\d{1,3}\.\d{1,3}/.test(domain)
HasIpPattern(s) == \E i \in 1..Len(s) : DottedQuadFrom(s, i, 4)

\* domain.split(".").length
DomainPartsLength(s) == Cardinality({i \in 1..Len(s) : s[i] = "."}) + 1

\* four parts not yet counted as complex
IsComplexDomain_FiveParts(s) == DomainPartsLength(s) > 4

\* if (domainParts.length > 3)
IsComplexDomain(s) == DomainPartsLength(s) > 3

\* the matches the text of the domain gives, in rule order
DomainFired(s) ==
    (IF IsComplexDomain(s) THEN <<RuleIndex(EmailRules, "complexDomain")>> ELSE <<>>)
    \o (IF HasIpPattern(s) THEN <<RuleIndex(EmailRules, "ipDomain")>> ELSE <<>>)

RECURSIVE InsertAll(_, _)
InsertAll(s, rs) ==
    IF rs = <<>> THEN s ELSE InsertAll(InsertSorted(s, Head(rs)), Tail(rs))

\* an address with the given domain text and the given other matches
EmailAt(text, others) ==
    [emptyPart   |-> text = <<>>,
     upperDomain |-> FALSE,
     fired       |-> InsertAll(others, DomainFired(text)),
     domain      |-> text,
     others      |-> others]

DomainInit ==
    /\ apiKey = FALSE
    /\ pc = "domain"
    /\ variant = "email"
    /\ valid = TRUE
    /\ \E o \in PipeEmailFired : ident = EmailAt(<<>>, o)
    /\ localResult = performLocalSpamDetection(ident)
    /\ analyzed = ident
    /\ now = 0
    /\ arbiter = NoArbiter
    /\ arbCalls = 0
    /\ timers = NoTimers
    /\ resolver = NoResolver
    /\ redirectInfo = NoRedirect
    /\ response = NoResponse
    /\ extraction = NoExtraction
    /\ history = NoHistory

\* the domain grows by one character and the address is scored again
ScoreDomainWithChar(c) ==
    /\ pc = "domain"
    /\ Len(ident.domain) < MaxDomainLen
    /\ ident' = EmailAt(Append(ident.domain, c), ident.others)
    /\ localResult' = performLocalSpamDetection(ident')
    /\ analyzed' = ident'
    /\ UNCHANGED <<apiKey, pc, variant, valid, now, arbiter, arbCalls, timers,
                   resolver, redirectInfo, response>>
    /\ UNCHANGED <<extraction, history>>

DomainNext == \E c \in DomainChars : ScoreDomainWithChar(c)

DomainSpec == DomainInit /\ [][DomainNext]_vars

(***************************************************************************)
(* The email scorer on base-domain names spelled out: the fuzzy-match and  *)
(* the keyboard-proximity rule are computed from the name, starting from a *)
(* brand's name and changing it one edit at a time.                        *)
(***************************************************************************)
\* most edits made to a name
MaxEdits == 2

\* the keys of trustedBrands in table order, each as legitimate.split(".")[0]
trustedBrands == <<
    <<"a", "m", "a", "z", "o", "n">>,
    <<"a", "p", "p", "l", "e">>,
    <<"m", "i", "c", "r", "o", "s", "o", "f", "t">>,
    <<"g", "o", "o", "g", "l", "e">>,
    <<"p", "a", "y", "p", "a", "l">>,
    <<"c", "h", "a", "s", "e">>,
    <<"b", "a", "n", "k", "o", "f", "a", "m", "e", "r", "i", "c", "a">>,
    <<"w", "e", "l", "l", "s", "f", "a", "r", "g", "o">>,
    <<"c", "i", "t", "i", "b", "a", "n", "k">>,
    <<"g", "m", "a", "i", "l">>,
    <<"y", "a", "h", "o", "o">>,
    <<"o", "u", "t", "l", "o", "o", "k">>,
    <<"f", "a", "c", "e", "b", "o", "o", "k">>,
    <<"i", "n", "s", "t", "a", "g", "r", "a", "m">>,
    <<"t", "w", "i", "t", "t", "e", "r">>,
    <<"l", "i", "n", "k", "e", "d", "i", "n">>,
    <<"n", "e", "t", "f", "l", "i", "x">>,
    <<"s", "p", "o", "t", "i", "f", "y">>,
    <<"e", "b", "a", "y">>,
    <<"f", "e", "d", "e", "x">>,
    <<"u", "s", "p", "s">>,
    <<"d", "h", "l">> >>

keyboardProximityPairs(c) ==
    CASE c = "a" -> {"s", "q", "w", "z"}
      [] c = "e" -> {"r", "w", "d"}
      [] c = "i" -> {"o", "u", "k"}
      [] c = "o" -> {"i", "p", "l"}
      [] c = "n" -> {"m", "b", "h"}
      [] OTHER   -> {}

Min3(a, b, c) == Min2(a, Min2(b, c))

\* matrix[j][0..i] once the inner loop has filled it, given matrix[j - 1]
RECURSIVE MatrixRowUpTo(_, _, _, _, _)
MatrixRowUpTo(prev, str1, str2, j, i) ==
    IF i = 0 THEN (0 :> j)
    ELSE LET row == MatrixRowUpTo(prev, str1, str2, j, i - 1)
             indicator == IF str1[i] = str2[j] THEN 0 ELSE 1
         IN  row @@ (i :> Min3(row[i - 1] + 1,
                               prev[i] + 1,
                               prev[i - 1] + indicator))

\* matrix[0..j] once the outer loop has filled row j (as rows 1..j + 1)
RECURSIVE MatrixUpTo(_, _, _)
MatrixUpTo(str1, str2, j) ==
    IF j = 0 THEN <<[i \in 0..Len(str1) |-> i]>>
    ELSE LET matrix == MatrixUpTo(str1, str2, j - 1)
         IN  Append(matrix, MatrixRowUpTo(matrix[j], str1, str2, j, Len(str1)))

\* return matrix[len2][len1]
levenshteinDistance(str1, str2) ==
    MatrixUpTo(str1, str2, Len(str2))[Len(str2) + 1][Len(str1)]

\* if (distance > 0 && distance <= 2 && domainName.length >= 4)
FuzzyMatch(domainName, legitName) ==
    LET distance == levenshteinDistance(domainName, legitName)
    IN  distance > 0 /\ distance <= 2 /\ Len(domainName) >= 4

\* the loop without its break
RECURSIVE FuzzyBrands_NoBreak(_, _)
FuzzyBrands_NoBreak(domainName, k) ==
    IF k > Len(trustedBrands) THEN <<>>
    ELSE IF FuzzyMatch(domainName, trustedBrands[k])
    THEN <<k>> \o FuzzyBrands_NoBreak(domainName, k + 1)
    ELSE FuzzyBrands_NoBreak(domainName, k + 1)

\* the brands the fuzzy-match loop pushes an indicator for, from brand k on
RECURSIVE FuzzyBrands(_, _)
FuzzyBrands(domainName, k) ==
    IF k > Len(trustedBrands) THEN <<>>
    ELSE IF FuzzyMatch(domainName, trustedBrands[k]) THEN <<k>>
    ELSE FuzzyBrands(domainName, k + 1)

\* proximityMatches after the inner loop
ProximityMatches(legitName, domainName) ==
    Cardinality({i \in 1..Len(legitName) :
                    /\ legitName[i] # domainName[i]
                    /\ domainName[i] \in keyboardProximityPairs(legitName[i])})

KeyboardMatch(domainName, legitName) ==
    /\ Len(legitName) = Len(domainName)
    /\ ProximityMatches(legitName, domainName) = 1

\* the brands the keyboard-proximity loop pushes an indicator for, from brand k on
RECURSIVE KeyboardBrands(_, _)
KeyboardBrands(domainName, k) ==
    IF k > Len(trustedBrands) THEN <<>>
    ELSE IF KeyboardMatch(domainName, trustedBrands[k]) THEN <<k>>
    ELSE KeyboardBrands(domainName, k + 1)

\* an address with the given base-domain name; matched: the brands its
\* fuzzy-match and keyboard-proximity indicators name
EmailNamed(name, edits) ==
    LET fuzzy    == FuzzyBrands(name, 1)
        keyboard == KeyboardBrands(name, 1)
    IN  [emptyPart   |-> FALSE,
         upperDomain |-> FALSE,
         fired       |-> Repeat(RuleIndex(EmailRules, "typosquatFuzzy"), Len(fuzzy))
                         \o Repeat(RuleIndex(EmailRules, "keyboardProximity"), Len(keyboard)),
         name        |-> name,
         edits       |-> edits,
         matched     |-> [fuzzy |-> fuzzy, keyboard |-> keyboard]]

\* the brand names the edits start from
SeedBrands ==
    {b \in Range(trustedBrands) : b \in {<<"a", "p", "p", "l", "e">>,
                                         <<"e", "b", "a", "y">>,
                                         <<"d", "h", "l">>}}

\* the characters put in place of another: a neighbour of "a", a neighbour
\* of "e", and a neighbour of neither
EditChars == {"s", "d", "x"}

NameInit ==
    /\ apiKey = FALSE
    /\ pc = "name"
    /\ variant = "email"
    /\ valid = TRUE
    /\ \E b \in SeedBrands : ident = EmailNamed(b, 0)
    /\ localResult = performLocalSpamDetection(ident)
    /\ analyzed = ident
    /\ now = 0
    /\ arbiter = NoArbiter
    /\ arbCalls = 0
    /\ timers = NoTimers
    /\ resolver = NoResolver
    /\ redirectInfo = NoRedirect
    /\ response = NoResponse
    /\ extraction = NoExtraction
    /\ history = NoHistory

ScoreName(name) ==
    /\ ident' = EmailNamed(name, ident.edits + 1)
    /\ localResult' = performLocalSpamDetection(ident')
    /\ analyzed' = ident'
    /\ UNCHANGED <<apiKey, pc, variant, valid, now, arbiter, arbCalls, timers,
                   resolver, redirectInfo, response, extraction, history>>

\* one character of the name is replaced and the address is scored again
ScoreNameWithSubstitution(i, c) ==
    /\ pc = "name"
    /\ ident.edits < MaxEdits
    /\ i \in DOMAIN ident.name
    /\ ident.name[i] # c
    /\ ScoreName([ident.name EXCEPT ![i] = c])

\* one character of the name is left out and the address is scored again
ScoreNameWithDeletion(i) ==
    /\ pc = "name"
    /\ ident.edits < MaxEdits
    /\ i \in DOMAIN ident.name
    /\ Len(ident.name) > 1
    /\ ScoreName(SubSeq(ident.name, 1, i - 1) \o SubSeq(ident.name, i + 1, Len(ident.name)))

NameNext ==
    \/ \E i \in DOMAIN ident.name, c \in EditChars : ScoreNameWithSubstitution(i, c)
    \/ \E i \in DOMAIN ident.name : ScoreNameWithDeletion(i)

NameSpec == NameInit /\ [][NameNext]_vars

(***************************************************************************)
(* The URL scorer on URLs spelled out far enough to count their '@': the   *)
(* '@' rule is computed from the text, the other rules are matches the URL *)
(* brings along.                                                           *)
(***************************************************************************)
\* longest URL text (after the scheme)
MaxUrlLen == 6

\* '@' and a character that is not '@'
UrlChars == {"a", "@"}

\* url.split(sep).length
SplitLength(s, sep) == Cardinality({i \in DOMAIN s : s[i] = sep}) + 1

\* if (url.split("@").length > 1)
HasAtSymbol(s) == SplitLength(s, "@") > 1

UrlTextFired(s) ==
    IF HasAtSymbol(s) THEN <<RuleIndex(UrlRules, "atSymbol")>> ELSE <<>>

\* a URL that parses, with the given text and the given other matches
UrlAt(text, others) ==
    [id         |-> 0,
     parseFails |-> FALSE,
     fired      |-> InsertAll(others, UrlTextFired(text)),
     text       |-> text,
     others     |-> others]

UrlTextInit ==
    /\ apiKey = FALSE
    /\ pc = "urlText"
    /\ variant = "url"
    /\ valid = TRUE
    /\ \E o \in PipeUrlFired : ident = UrlAt(<<>>, o)
    /\ localResult = performLocalURLAnalysis(ident)
    /\ analyzed = ident
    /\ now = 0
    /\ arbiter = NoArbiter
    /\ arbCalls = 0
    /\ timers = NoTimers
    /\ resolver = NoResolver
    /\ redirectInfo = NoRedirect
    /\ response = NoResponse
    /\ extraction = NoExtraction
    /\ history = NoHistory

\* the URL grows by one character and is scored again
ScoreUrlWithChar(c) ==
    /\ pc = "urlText"
    /\ Len(ident.text) < MaxUrlLen
    /\ ident' = UrlAt(Append(ident.text, c), ident.others)
    /\ localResult' = performLocalURLAnalysis(ident')
    /\ analyzed' = ident'
    /\ UNCHANGED <<apiKey, pc, variant, valid, now, arbiter, arbCalls, timers,
                   resolver, redirectInfo, response, extraction, history>>

UrlTextNext == \E c \in UrlChars : ScoreUrlWithChar(c)

UrlTextSpec == UrlTextInit /\ [][UrlTextNext]_vars

(***************************************************************************)
(* extractArticle: the chain of extraction methods.                        *)
(***************************************************************************)
\* const methods = isServerless ? [...] : [...]
Methods(env) ==
    IF env.serverless THEN <<"Firecrawl", "Article Extractor">>
    ELSE <<"Jina AI Reader", "Firecrawl", "Article Extractor">>

\* what the service behind a method can give: content of more than 200
\* characters, less, or a failed request
ServiceAnswers == {"content", "insufficient", "failed"}

Configured(env, m) ==
    CASE m = "Jina AI Reader"    -> env.jinaKey
      [] m = "Firecrawl"         -> env.firecrawlKey
      [] m = "Article Extractor" -> TRUE

\* extractWithJina, extractWithFirecrawl, extractWithArticleExtractor: an
\* Article, or an Error thrown
MethodResult(env, m, answer) ==
    IF ~Configured(env, m)
    THEN [threw |-> TRUE, success |-> FALSE, long |-> FALSE, method |-> m,
          message |-> "key not configured"]
    ELSE IF answer = "content"
    THEN [threw |-> FALSE, success |-> TRUE, long |-> TRUE, method |-> m,
          message |-> ""]
    ELSE [threw |-> TRUE, success |-> FALSE, long |-> FALSE, method |-> m,
          message |-> IF answer = "insufficient"
                      THEN "Insufficient content returned"
                      ELSE "request failed"]

\* errors.push(`${method.name}: ${errorMsg}`)
ErrorEntry(r) == [name |-> r.method, message |-> r.message]

\* the loop moving on to the next method, or past the last one
TryNext(x) ==
    IF x.next < Len(x.methods)
    THEN [x EXCEPT !.next = @ + 1, !.called = Append(@, x.methods[x.next + 1])]
    ELSE [x EXCEPT !.pc = "threw", !.thrown = "All extraction methods failed"]

\* a success does not end the loop: the last method to succeed is returned
ExtractionAfter_KeepsTrying(x, r) ==
    IF r.threw
    THEN TryNext([x EXCEPT !.errors = Append(@, ErrorEntry(r))])
    ELSE IF r.success /\ r.long
    THEN IF x.next < Len(x.methods)
         THEN TryNext([x EXCEPT !.result = r.method])
         ELSE [x EXCEPT !.pc = "returned", !.result = r.method]
    ELSE TryNext(x)

\* one iteration of the for loop, from the await on
ExtractionAfter(x, r) ==
    IF r.threw
    THEN TryNext([x EXCEPT !.errors = Append(@, ErrorEntry(r))])
    ELSE IF r.success /\ r.long
    THEN [x EXCEPT !.pc = "returned", !.result = r.method]
    ELSE TryNext(x)

\* the strings given as url, by what new URL() makes of them
UrlStrings == {"http:", "https:", "ftp:", "unparsable"}

\* isValidUrl: new URL(string) does not throw and the protocol is http: or https:
isValidUrl(string) == string \in {"http:", "https:"}

\* extractArticle(url) up to its first await
ExtractArticle(url) ==
    /\ extraction.pc = "idle"
    /\ extraction' =
          IF ~isValidUrl(url)
          THEN [extraction EXCEPT !.pc = "threw", !.url = url,
                                  !.thrown = "Invalid URL format"]
          ELSE TryNext([extraction EXCEPT !.pc = "calling", !.url = url,
                                          !.methods = Methods(extraction.env)])
    /\ UNCHANGED <<apiKey, pc, variant, valid, ident, localResult, analyzed, now,
                   arbiter, arbCalls, timers, resolver, redirectInfo, response,
                   history>>

\* the method being awaited settles
MethodSettles(answer) ==
    /\ extraction.pc = "calling"
    /\ extraction' = ExtractionAfter(extraction,
                         MethodResult(extraction.env,
                                      extraction.methods[extraction.next], answer))
    /\ UNCHANGED <<apiKey, pc, variant, valid, ident, localResult, analyzed, now,
                   arbiter, arbCalls, timers, resolver, redirectInfo, response,
                   history>>

ExtractInit ==
    /\ apiKey = FALSE
    /\ pc = "idle"
    /\ variant = "none"
    /\ valid = FALSE
    /\ ident = NoIdent
    /\ localResult = NoResult
    /\ analyzed = NoIdent
    /\ now = 0
    /\ arbiter = NoArbiter
    /\ arbCalls = 0
    /\ timers = NoTimers
    /\ resolver = NoResolver
    /\ redirectInfo = NoRedirect
    /\ response = NoResponse
    /\ \E env \in Envs : extraction = IdleExtraction(env)
    /\ history = NoHistory

ExtractNext ==
    \/ \E u \in UrlStrings : ExtractArticle(u)
    \/ \E a \in ServiceAnswers : MethodSettles(a)

ExtractSpec == ExtractInit /\ [][ExtractNext]_vars

\* ---------------------------------------------------------------------------
\* The history store: one record made by saveAnalysis and the calls that
\* edit it. Each call reads the record with db.get, changes its own copy and
\* writes the copy back with db.put; the two awaits are separate
\* transactions, so the calls of two callers interleave between them.
\* ---------------------------------------------------------------------------
MaxCalls == 4

Tags  == {"a", "b"}
Notes == {"n"}

Includes(tags, tag) == \E i \in DOMAIN tags : tags[i] = tag

Filter(tags, tag) ==
    LET Keep(t) == t # tag
    IN  SelectSeq(tags, Keep)

\* what a call does with the copy it read: the changed copy, and whether it
\* is written back
addTag_NoIncludesTest(record, tag) ==
    [put |-> TRUE, record |-> [record EXCEPT !.tags = Append(@, tag)]]

addTag(record, tag) ==
    IF ~Includes(record.tags, tag)
    THEN [put |-> TRUE, record |-> [record EXCEPT !.tags = Append(@, tag)]]
    ELSE [put |-> FALSE, record |-> record]

removeTag(record, tag) ==
    [put |-> TRUE, record |-> [record EXCEPT !.tags = Filter(@, tag)]]

toggleStar(record) ==
    [put |-> TRUE, record |-> [record EXCEPT !.starred = ~@]]

updateNotes(record, notes) ==
    [put |-> TRUE, record |-> [record EXCEPT !.notes = notes]]

HistoryCalls ==
    {[op |-> "addTag", arg |-> t] : t \in Tags}
        \cup {[op |-> "removeTag", arg |-> t] : t \in Tags}
        \cup {[op |-> "toggleStar", arg |-> "none"]}
        \cup {[op |-> "updateNotes", arg |-> n] : n \in Notes}

AfterGet(call, record) ==
    CASE call.op = "addTag"      -> addTag(record, call.arg)
      [] call.op = "removeTag"   -> removeTag(record, call.arg)
      [] call.op = "toggleStar"  -> toggleStar(record)
      [] call.op = "updateNotes" -> updateNotes(record, call.arg)

InFlight(c) == history.calls[c].pc # "idle"

Completed(call, wrote) ==
    [op |-> call.op, arg |-> call.arg, overlapped |-> call.overlapped,
     wrote |-> wrote]

\* saveAnalysis: db.add stores the new record
saveAnalysis ==
    /\ ~history.saved
    /\ history' = [history EXCEPT !.saved = TRUE, !.record = NoRecord]
    /\ UNCHANGED <<apiKey, pc, variant, valid, ident, localResult, analyzed, now,
                   arbiter, arbCalls, timers, resolver, redirectInfo, response,
                   extraction>>

\* a caller calls addTag, removeTag, toggleStar or updateNotes with the id
\* saveAnalysis returned
CallStarts(c, call) ==
    /\ history.saved
    /\ ~InFlight(c)
    /\ history.started < MaxCalls
    /\ history' =
          [history EXCEPT
              !.started = @ + 1,
              !.calls = [d \in Callers |->
                  IF d = c
                  THEN [pc |-> "start", op |-> call.op, arg |-> call.arg,
                        record |-> NoRecord,
                        overlapped |-> \E e \in Callers \ {c} : InFlight(e)]
                  ELSE IF InFlight(d) THEN [@[d] EXCEPT !.overlapped = TRUE]
                  ELSE @[d]]]
    /\ UNCHANGED <<apiKey, pc, variant, valid, ident, localResult, analyzed, now,
                   arbiter, arbCalls, timers, resolver, redirectInfo, response,
                   extraction>>

\* the call's db.get resolves with a copy of the stored record; the call
\* changes the copy and issues db.put, or returns when there is nothing to
\* write
GetResolves(c) ==
    /\ history.calls[c].pc = "start"
    /\ LET after == AfterGet(history.calls[c], history.record)
       IN  history' =
             IF after.put
             THEN [history EXCEPT !.calls[c].pc = "put",
                                  !.calls[c].record = after.record]
             ELSE [history EXCEPT !.calls[c] = NoCall,
                                  !.last = Completed(history.calls[c], FALSE)]
    /\ UNCHANGED <<apiKey, pc, variant, valid, ident, localResult, analyzed, now,
                   arbiter, arbCalls, timers, resolver, redirectInfo, response,
                   extraction>>

\* the call's db.put resolves: its copy replaces the stored record and the
\* call returns
PutResolves(c) ==
    /\ history.calls[c].pc = "put"
    /\ history' = [history EXCEPT !.record = history.calls[c].record,
                                  !.calls[c] = NoCall,
                                  !.last = Completed(history.calls[c], TRUE)]
    /\ UNCHANGED <<apiKey, pc, variant, valid, ident, localResult, analyzed, now,
                   arbiter, arbCalls, timers, resolver, redirectInfo, response,
                   extraction>>

HistoryInit ==
    /\ apiKey = FALSE
    /\ pc = "idle"
    /\ variant = "none"
    /\ valid = FALSE
    /\ ident = NoIdent
    /\ localResult = NoResult
    /\ analyzed = NoIdent
    /\ now = 0
    /\ arbiter = NoArbiter
    /\ arbCalls = 0
    /\ timers = NoTimers
    /\ resolver = NoResolver
    /\ redirectInfo = NoRedirect
    /\ response = NoResponse
    /\ extraction = NoExtraction
    /\ history = NoHistory

HistoryNext ==
    \/ saveAnalysis
    \/ \E c \in Callers, call \in HistoryCalls : CallStarts(c, call)
    \/ \E c \in Callers : GetResolves(c)
    \/ \E c \in Callers : PutResolves(c)

HistorySpec == HistoryInit /\ [][HistoryNext]_vars

(***************************************************************************)
(* Properties of a request (checked under Spec and FairSpec).              *)
(***************************************************************************)
\* the request was accepted and answered
Answered == pc = "done" /\ valid

\* the local scorer's band as a verdict of the variant's enum
LocalBandAsVerdict ==
    IF variant = "email"
    THEN CASE localResult.riskLevel = "invalid" -> "fake"
           [] localResult.riskLevel = "risky"   -> "suspicious"
           [] localResult.riskLevel = "safe"    -> "legitimate"
    ELSE CASE localResult.riskLevel = "dangerous"  -> "dangerous"
           [] localResult.riskLevel = "suspicious" -> "suspicious"
           [] localResult.riskLevel = "safe"       -> "safe"

ShownScore == IF variant = "email" THEN response.body.spamScore
                                   ELSE response.body.riskScore

\* C1: when the arbitration call is made and times out or fails, the final
\* verdict is the local scorer's band mapped to the verdict enum, for both
\* variants, and the explanation is not the arbiter's.
C1_FailureFallsBackToLocalBand ==
    (Answered /\ apiKey /\ arbiter.ended \in {"failed", "timedOut"}) =>
        /\ response.status = 200
        /\ response.body.geminiVerdict = LocalBandAsVerdict
        /\ response.body.aiAnalysis # Outcome("object", "none").explanation

\* C2: without an API key no arbitration call is made and the final verdict
\* is the local scorer's band mapped to the verdict enum, marked local-only.
C2_UnconfiguredIsLocalOnly ==
    (Answered /\ ~apiKey) =>
        /\ arbCalls = 0
        /\ arbiter.call = "idle"
        /\ response.status = 200
        /\ response.body.geminiVerdict = LocalBandAsVerdict
        /\ response.body.aiAnalysis =
               Text("API key not configured. Using local analysis only.")

\* an email in the middle band answered without a key
C2_Witness ==
    /\ Answered /\ ~apiKey /\ variant = "email"
    /\ localResult.riskLevel = "risky"
    /\ response.body.geminiVerdict = "suspicious"

\* C3: once the gateway is called the request gets a verdict, whether or
\* not the arbitration service ever answers.
C3_GatewayAlwaysAnswers == (pc = "awaitArbiter") ~> (pc = "done")

\* C4: every accepted request is answered with a result carrying a verdict
\* of the variant's enum, never with an error response.
C4_AlwaysFinalResult ==
    Answered =>
        /\ response.status = 200
        /\ response.body.geminiVerdict \in
               (IF variant = "email" THEN EmailVerdicts ELSE UrlVerdicts)

\* a URL request whose redirects used up the hop budget and whose
\* arbitration failed, answered all the same
C4_Witness ==
    /\ Answered /\ variant = "url"
    /\ Len(redirectInfo.redirectChain) = maxRedirects + 1
    /\ arbiter.ended = "failed"
    /\ response.status = 200

\* C5: when the arbiter answers with a verdict of the enum, the verdict, the
\* risk band, the flag and the explanation of the result are the arbiter's,
\* whatever the local band.
C5_ArbiterAnswerIsFinal ==
    (Answered /\ apiKey /\ arbiter.ended = "answered") =>
        LET v == arbiter.outcome.verdict
            b == response.body
        IN  /\ response.status = 200
            /\ b.geminiVerdict = v
            /\ b.reason = arbiter.outcome.explanation
            /\ b.aiAnalysis = arbiter.outcome.explanation
            /\ IF variant = "email"
               THEN /\ b.riskLevel = (CASE v = "fake" -> "invalid"
                                        [] v = "suspicious" -> "risky"
                                        [] v = "legitimate" -> "safe")
                    /\ b.isSpam <=> (v \in {"fake", "suspicious"})
               ELSE /\ b.riskLevel = v
                    /\ b.isSafe <=> (v = "safe")

\* a URL the local scorer calls dangerous and the arbiter calls safe
C5_Witness ==
    /\ Answered /\ variant = "url" /\ arbiter.ended = "answered"
    /\ localResult.riskLevel = "dangerous"
    /\ response.body.riskLevel = "safe"
    /\ response.body.isSafe

\* C6: in every final result the score is fixed by the verdict: 85 for
\* fake/dangerous, 60 for suspicious, 20 (email) or 15 (URL) for the safe tier.
C6_ScoreFollowsVerdict ==
    (Answered /\ response.status = 200) =>
        ShownScore = (CASE response.body.geminiVerdict \in {"fake", "dangerous"} -> 85
                        [] response.body.geminiVerdict = "suspicious" -> 60
                        [] response.body.geminiVerdict = "legitimate" -> 20
                        [] response.body.geminiVerdict = "safe" -> 15)

(***************************************************************************)
(* Properties of the local scorers (checked under ScorerSpec).             *)
(***************************************************************************)
LocalScore == IF variant = "email" THEN localResult.spamScore ELSE localResult.riskScore

\* the identifier went through the rule set (no short-circuit)
ReachedRules == IF variant = "email" THEN ~ident.emptyPart ELSE ~ident.parseFails

Rank(level) ==
    CASE level = "safe" -> 0
      [] level \in {"risky", "suspicious"} -> 1
      [] level \in {"invalid", "dangerous"} -> 2

\* C7: the local score is an integer in 0..100, and for an identifier that
\* reaches the rule set it is min(sum of the weights of the fired rules, 100),
\* for the email scorer and for the URL scorer.
C7_ScoreIsClampedSum ==
    pc = "scorer" =>
        /\ LocalScore \in 0..100
        /\ ReachedRules =>
              LocalScore = (IF SumWeights(localResult.indicators) < 100
                            THEN SumWeights(localResult.indicators) ELSE 100)

\* an email whose fired weights add up to more than 100 and whose score is 100
C7_Witness ==
    /\ pc = "scorer" /\ variant = "email" /\ ReachedRules
    /\ SumWeights(localResult.indicators) > 100
    /\ localResult.spamScore = 100

\* C8: email scorer: riskLevel is invalid from 65, risky from 35 to 64, safe
\* below 35; isSpam is true exactly when the score is above 35.
C8_EmailBands ==
    (pc = "scorer" /\ variant = "email") =>
        LET s == localResult.spamScore
        IN  /\ s >= 65 => localResult.riskLevel = "invalid"
            /\ (s >= 35 /\ s < 65) => localResult.riskLevel = "risky"
            /\ s < 35 => localResult.riskLevel = "safe"
            /\ localResult.isSpam <=> (s > 35)

\* the boundary score 35: band risky, yet not flagged as spam
C8_Witness ==
    /\ pc = "scorer" /\ variant = "email" /\ ReachedRules
    /\ localResult.spamScore = 35
    /\ localResult.riskLevel = "risky"
    /\ ~localResult.isSpam

\* C9: URL scorer: riskLevel is dangerous from 60, suspicious from 30 to 59,
\* safe below 30; isSafe is true exactly when the score is below 30.
C9_UrlBands ==
    (pc = "scorer" /\ variant = "url") =>
        LET s == localResult.riskScore
        IN  /\ s >= 60 => localResult.riskLevel = "dangerous"
            /\ (s >= 30 /\ s < 60) => localResult.riskLevel = "suspicious"
            /\ s < 30 => localResult.riskLevel = "safe"
            /\ localResult.isSafe <=> (s < 30)

\* the boundary score 30: band suspicious and not safe
C9_Witness ==
    /\ pc = "scorer" /\ variant = "url" /\ ReachedRules
    /\ localResult.riskScore = 30
    /\ localResult.riskLevel = "suspicious"
    /\ ~localResult.isSafe

BandOf(s) == IF variant = "email" THEN EmailRiskLevel(s) ELSE UrlRiskLevel(s)

\* C10: banding is monotonic in the score for each variant: every score up to
\* the scorer's gets a band no more severe than the scorer's band and every
\* score from it on a band at least as severe, and a further rule match never
\* lowers the score or the band.
C10_BandingMonotonic ==
    /\ [](pc = "scorer" =>
            \A a \in 0..100 :
                /\ a <= LocalScore => Rank(BandOf(a)) <= Rank(localResult.riskLevel)
                /\ a >= LocalScore => Rank(BandOf(a)) >= Rank(localResult.riskLevel))
    /\ [][pc = "scorer" =>
            /\ LocalScore' >= LocalScore
            /\ Rank(localResult'.riskLevel) >= Rank(localResult.riskLevel)]_vars

\* an identifier in the middle band with a rule match still to come
C10_Witness ==
    /\ pc = "scorer" /\ ReachedRules
    /\ Rank(localResult.riskLevel) = 1
    /\ Len(ident.fired) = 2

(***************************************************************************)
(* Properties of redirect resolution (checked under Spec and ResolveSpec). *)
(***************************************************************************)
Last(q) == q[Len(q)]

NoRepeats(q) == Cardinality(Range(q)) = Len(q)

\* the resolver's promise settled before the 5 s timer, so POST holds its result
ResolverWon == resolver.rpc = "returned" /\ ~resolver.abandoned

\* C11 (as the code has it): when a Location names a URL already in the
\* chain, resolution stops at once: no further probe is issued and the chain
\* is returned as built so far.  The repeated URL is in it at its earlier
\* position and is not appended again; finalUrl is the last URL reached, and
\* the request is answered with a result.
C11_CycleStopsResolution ==
    /\ [](resolver.last.kind = "cycle" =>
            /\ resolver.rpc = "returned"
            /\ resolver.last.target \in Range(resolver.redirectChain)
            /\ NoRepeats(resolver.redirectChain)
            /\ resolver.currentUrl = Last(resolver.redirectChain)
            /\ ResolverWon =>
                  /\ pc \in {"awaitArbiter", "done"}
                  /\ redirectInfo = ResolverResult(resolver)
                  /\ Answered => /\ response.status = 200
                                 /\ response.body.redirectChain = resolver.redirectChain)
    /\ [][(resolver.last.kind # "cycle" /\ resolver'.last.kind = "cycle") =>
            /\ resolver.rpc = "fetching"
            /\ resolver'.rpc = "returned"
            /\ resolver'.redirectChain = resolver.redirectChain
            /\ resolver'.currentUrl = resolver.currentUrl
            /\ resolver'.probes = resolver.probes]_vars

\* the third URL of a chain redirecting back to the first, answered
C11_Witness ==
    /\ Answered /\ response.status = 200
    /\ resolver.last.kind = "cycle" /\ resolver.last.target = 0
    /\ ResolverWon
    /\ response.body.redirectChain = <<0, 1, 2>>
    /\ response.body.finalDestination = 2

\* C11 as stated: the repeated URL is the last element of the returned chain.
C11_RepeatedUrlIsLast ==
    (resolver.last.kind = "cycle" /\ resolver.rpc = "returned") =>
        Last(resolver.redirectChain) = resolver.last.target

\* C12: the resolver follows at most 5 redirects whatever the network
\* answers: the chain never has more than 6 entries, no more than 5 probes
\* are issued, and the chain the request holds and returns is as short.
C12_AtMostFiveHops ==
    variant = "url" =>
        /\ Len(resolver.redirectChain) <= maxRedirects + 1
        /\ resolver.attempts <= maxRedirects
        /\ resolver.probes <= maxRedirects
        /\ resolver.rpc # "idle" => Len(resolver.redirectChain) = resolver.attempts + 1
        /\ Len(redirectInfo.redirectChain) <= maxRedirects + 1
        /\ (Answered /\ response.status = 200) =>
               Len(response.body.redirectChain) <= maxRedirects + 1

\* five distinct redirects followed, the fifth ending the resolution although
\* it named one more new URL
C12_Witness ==
    /\ Answered /\ response.status = 200
    /\ resolver.attempts = maxRedirects
    /\ resolver.probes = maxRedirects
    /\ resolver.last = [kind |-> "redirect", target |-> maxRedirects]
    /\ response.body.redirectChain = <<0, 1, 2, 3, 4, 5>>

\* C13: redirect resolution always ends, and for the request it ends no
\* later than 5 s after it began: the request never waits on the resolver
\* beyond the deadline, and neither the request nor the resolver is left
\* waiting for ever (a request resolves once, so each wait ends for good).
C13_ResolutionEndsInTime ==
    /\ [](pc = "resolving" => now - resolver.startTime <= RedirectRaceTimeout)
    /\ [][(pc = "resolving" /\ pc' # "resolving") =>
            /\ pc' \in {"awaitArbiter", "done"}
            /\ now' - resolver.startTime <= RedirectRaceTimeout]_vars
    /\ []<>(pc # "resolving" /\ resolver.rpc # "fetching")

\* two hops that took the full 2 s each and a third still pending when the
\* deadline came: the request moved on at 5 s
C13_Witness ==
    /\ variant = "url" /\ pc \in {"awaitArbiter", "done"}
    /\ resolver.abandoned
    /\ resolver.rpc = "fetching"
    /\ resolver.redirectChain = <<0, 1, 2>>
    /\ now - resolver.startTime = RedirectRaceTimeout

HopFailures == {"error", "aborted"}

\* C14: when a probe fails (network error, or aborted after 2 s) the
\* resolver issues no further probe and returns the chain built so far with
\* finalUrl the last URL of it; the request goes on with that result and is
\* answered, never failed.
C14_HopFailureEndsChain ==
    /\ [](resolver.last.kind \in HopFailures =>
            /\ resolver.rpc = "returned"
            /\ resolver.currentUrl = Last(resolver.redirectChain)
            /\ ResolverWon =>
                  /\ pc \in {"awaitArbiter", "done"}
                  /\ redirectInfo = ResolverResult(resolver)
                  /\ analyzed.id = Last(resolver.redirectChain)
                  /\ Answered =>
                        /\ response.status = 200
                        /\ response.body.redirectChain = resolver.redirectChain
                        /\ response.body.finalDestination = Last(resolver.redirectChain))
    /\ [][(resolver.last.kind \notin HopFailures /\ resolver'.last.kind \in HopFailures) =>
            /\ resolver.rpc = "fetching"
            /\ resolver'.rpc = "returned"
            /\ resolver'.redirectChain = resolver.redirectChain
            /\ resolver'.currentUrl = resolver.currentUrl
            /\ resolver'.probes = resolver.probes]_vars

\* the probe of the second URL aborted after 2 s: the request is answered
\* with the two-URL chain
C14_Witness ==
    /\ Answered /\ response.status = 200
    /\ resolver.last.kind = "aborted"
    /\ ResolverWon
    /\ response.body.redirectChain = <<0, 1>>
    /\ response.body.finalDestination = 1

(***************************************************************************)
(* Properties of the URL result (checked under Spec).                      *)
(***************************************************************************)
UrlAnswered == Answered /\ variant = "url" /\ response.status = 200

\* C15: the URL scored is the last URL of the redirect chain, which is the
\* request's URL when the resolution was cut off by the deadline, and the
\* url field of the result is the request's URL all the same.
C15_ScoresDestinationReportsOriginal ==
    UrlAnswered =>
        /\ analyzed.id = Last(response.body.redirectChain)
        /\ analyzed.id = response.body.finalDestination
        /\ resolver.abandoned => analyzed.id = ident.id
        /\ response.body.url = ident.id

\* C16: in every URL result isShortened is true exactly when the host of the
\* request's URL is one of the listed shortener domains, however the redirect
\* resolution went.
C16_ShortenedFollowsHost ==
    UrlAnswered => (response.body.isShortened <=> ident.known)

\* C17: when the 5 s timer fires before the resolver returns, the request
\* goes on with its own URL as destination and as the only entry of the
\* chain, and when the resolver returns first the request holds its result;
\* once the request has gone on, neither a resolver result arriving later nor
\* the timer firing later changes what the request holds or has answered.
C17_RaceLoserIsDiscarded ==
    /\ [](variant = "url" =>
            /\ resolver.abandoned =>
                  /\ pc \in {"awaitArbiter", "done"}
                  /\ redirectInfo.finalUrl = ident.id
                  /\ redirectInfo.redirectChain = <<ident.id>>
                  /\ analyzed.id = ident.id
                  /\ UrlAnswered =>
                        /\ response.body.redirectChain = <<ident.id>>
                        /\ response.body.finalDestination = ident.id
            /\ ResolverWon =>
                  /\ redirectInfo = ResolverResult(resolver)
                  /\ UrlAnswered =>
                        response.body.redirectChain = resolver.redirectChain)
    /\ [][(variant = "url" /\ pc \in {"awaitArbiter", "done"}) =>
            /\ redirectInfo' = redirectInfo
            /\ analyzed' = analyzed
            /\ localResult' = localResult
            /\ pc = "done" => (pc' = "done" /\ response' = response)]_vars

\* a resolver left behind by the deadline that later returned a longer chain,
\* after the request was answered with its own URL alone
C17_Witness ==
    /\ UrlAnswered
    /\ resolver.abandoned
    /\ resolver.rpc = "returned"
    /\ Len(resolver.redirectChain) > 1
    /\ response.body.redirectChain = <<0>>
    /\ response.body.finalDestination = 0

\* the indicators the local scorer gives for the identifier it was run on
ScorerIndicators ==
    IF variant = "email" THEN performLocalSpamDetection(analyzed).indicators
                         ELSE performLocalURLAnalysis(analyzed).indicators

\* the notice POST puts in front for a shortened URL that redirected
ShortenedNotice ==
    IF variant = "url" /\ response.body.isShortened /\ Len(response.body.redirectChain) > 1
    THEN <<Indicator(-1, 0)>> ELSE <<>>

InRuleOrder(inds) ==
    \A i, j \in DOMAIN inds : i < j => inds[i].rule <= inds[j].rule

C19_EmptyPartGetsInvalidResult ==
    (variant = "email" /\ ident.emptyPart /\ pc = "done") =>
        /\ response.status = 200
        /\ response.body.riskLevel = "invalid"
        /\ response.body.isSpam
        /\ response.body.indicators = <<Indicator(0, 0)>>

\* C21: the verdict of every result is one of the three values of the
\* variant's enum, and an arbiter answer outside the enum (rejected by the
\* gateway's schema) comes out as the fallback tier: the local scorer's band
\* as a verdict.
C21_OffEnumFallsBack ==
    (Answered /\ response.status = 200) =>
        /\ response.body.geminiVerdict \in
               (IF variant = "email" THEN EmailVerdicts ELSE UrlVerdicts)
        /\ arbiter.outcome.kind = "schema" =>
               response.body.geminiVerdict = LocalBandAsVerdict

(***************************************************************************)
(* Properties of the email scorer on spelled-out domains (DomainSpec).     *)
(***************************************************************************)
\* C22: an address whose domain is or contains a dotted IPv4-style address
\* is scored 100 and put in the most severe band, whatever other rules
\* match.
C22_IpDomainIsMaximal ==
    (pc = "domain" /\ HasIpPattern(ident.domain)) =>
        /\ localResult.spamScore = 100
        /\ localResult.riskLevel = "invalid"
        /\ localResult.isSpam

\* the domain 1.1.1.1 with no other match: the IP rule (80) and the
\* complex-domain rule (25) are the only indicators
C22_Witness ==
    /\ pc = "domain"
    /\ ident.domain = <<"1", ".", "1", ".", "1", ".", "1">>
    /\ ident.others = <<>>
    /\ Len(localResult.indicators) = 2
    /\ localResult.spamScore = 100

(***************************************************************************)
(* Properties of extractArticle (ExtractSpec).                             *)
(***************************************************************************)
\* the methods invoked before the last one invoked
EarlierCalls == SubSeq(extraction.called, 1, Len(extraction.called) - 1)

\* the method names of the errors collected
FailedMethods == [i \in DOMAIN extraction.errors |-> extraction.errors[i].name]

DiffPositions(a, b) == {i \in DOMAIN a : a[i] # b[i]}

\* the number of indicators a rule has in the scorer's result
IndicatorsOf(n) ==
    Cardinality({i \in DOMAIN localResult.indicators :
                    localResult.indicators[i].rule = RuleIndex(EmailRules, n)})

\* C24: the keyboard-proximity rule fires for a brand only when the name has
\* the brand's length and differs from it in exactly one position, a
\* keyboard-adjacent substitution; a name differing in two or more positions
\* never fires it.
C24_OneKeyAway ==
    pc = "name" =>
        \A k \in Range(ident.matched.keyboard) :
            /\ IndicatorsOf("keyboardProximity") = 1
            /\ Len(ident.name) = Len(trustedBrands[k])
            /\ Cardinality(DiffPositions(ident.name, trustedBrands[k])) = 1
            /\ \A i \in DiffPositions(ident.name, trustedBrands[k]) :
                   ident.name[i] \in keyboardProximityPairs(trustedBrands[k][i])

\* a can be made b with at most k insertions, deletions and substitutions
RECURSIVE WithinEdits(_, _, _)
WithinEdits(a, b, k) ==
    IF a = <<>> THEN Len(b) <= k
    ELSE IF b = <<>> THEN Len(a) <= k
    ELSE IF Head(a) = Head(b) THEN WithinEdits(Tail(a), Tail(b), k)
    ELSE /\ k > 0
         /\ \/ WithinEdits(Tail(a), Tail(b), k - 1)
            \/ WithinEdits(Tail(a), b, k - 1)
            \/ WithinEdits(a, Tail(b), k - 1)

\* edit distance 1 or 2
NearMiss(a, b) == a # b /\ WithinEdits(a, b, 2)

\* C25: the scorer emits at most one fuzzy-match and at most one
\* keyboard-proximity indicator, each for the first brand in table order the
\* rule matches; the fuzzy rule fires only at edit distance 1 or 2 from the
\* brand's name and for a name of at least 4 characters.
C25_FirstBrandOnly ==
    pc = "name" =>
        /\ IndicatorsOf("typosquatFuzzy") = Len(ident.matched.fuzzy)
        /\ IndicatorsOf("keyboardProximity") = Len(ident.matched.keyboard)
        /\ Len(ident.matched.fuzzy) <= 1
        /\ Len(ident.matched.keyboard) <= 1
        /\ \A k \in Range(ident.matched.fuzzy) :
              /\ NearMiss(ident.name, trustedBrands[k])
              /\ Len(ident.name) >= 4
              /\ \A e \in 1..(k - 1) : ~NearMiss(ident.name, trustedBrands[e])
        /\ \A k \in Range(ident.matched.keyboard) :
              /\ KeyboardMatch(ident.name, trustedBrands[k])
              /\ \A e \in 1..(k - 1) : ~KeyboardMatch(ident.name, trustedBrands[e])

\* "appld": one key from "apple" by the rule's test and from "chase" as
\* well, one edit from "apple" and more than two from "amazon"; one
\* indicator of each rule, both naming "apple"
C25_Witness ==
    /\ pc = "name"
    /\ ident.name = <<"a", "p", "p", "l", "d">>
    /\ ident.matched.keyboard = <<2>>
    /\ KeyboardMatch(ident.name, trustedBrands[6])
    /\ ident.matched.fuzzy = <<2>>
    /\ IndicatorsOf("typosquatFuzzy") = 1
    /\ IndicatorsOf("keyboardProximity") = 1

(***************************************************************************)
(* Further properties of the local scorers (ScorerSpec).                   *)
(***************************************************************************)
\* C26: an address with both parts whose domain has an uppercase letter gets
\* the mixed-case-domain indicator, weight 25.
C26_UppercaseDomainIsFlagged ==
    (pc = "scorer" /\ variant = "email" /\ ~ident.emptyPart /\ ident.upperDomain) =>
        \E i \in DOMAIN localResult.indicators :
            localResult.indicators[i] =
                Indicator(RuleIndex(EmailRules, "mixedCaseDomain"), 25)

(***************************************************************************)
(* Properties of the URL scorer on spelled-out URLs (UrlTextSpec).         *)
(***************************************************************************)
\* C27: the '@' rule (weight 70) fires only for a URL with more than one
\* '@'; with no '@' or exactly one it does not fire.
C27_AtRuleNeedsTwo ==
    pc = "urlText" =>
        ((\E i \in DOMAIN localResult.indicators :
              localResult.indicators[i] = Indicator(RuleIndex(UrlRules, "atSymbol"), 70))
             => Cardinality({i \in DOMAIN ident.text : ident.text[i] = "@"}) > 1)

(***************************************************************************)
(* Further properties of a request (Spec).                                 *)
(***************************************************************************)
\* the redirects the resolver followed, counted from its fetches: every
\* fetch but the one that ended the loop without a new URL
RedirectsFollowed ==
    IF resolver.last.kind = "redirect" THEN resolver.probes ELSE resolver.probes - 1

WellFormedChain(chain, final, followed) ==
    /\ chain # <<>>
    /\ Head(chain) = ident.id
    /\ Last(chain) = final
    /\ NoRepeats(chain)
    /\ Len(chain) = 1 + followed

C29_EmailFieldsAgree ==
    (Answered /\ variant = "email" /\ response.status = 200) =>
        /\ response.body.isSpam <=> response.body.riskLevel # "safe"
        /\ response.body.isSpam <=> response.body.geminiVerdict \in {"suspicious", "fake"}

NoDuplicates(tags) == \A i, j \in DOMAIN tags : tags[i] = tags[j] => i = j

\* the step in which caller c's call returns
Returns(c) == InFlight(c) /\ history'.calls[c].pc = "idle"

\* C30: the tags of a record made by saveAnalysis never hold a tag twice,
\* whatever calls of addTag, removeTag, toggleStar and updateNotes have
\* completed on it and however they interleaved; an addTag that reads a
\* record already holding its tag returns with the stored record unchanged;
\* and when a removeTag that no other call overlapped returns, its tag is not
\* in the stored record.
C30_TagsHeldOnce ==
    /\ [](history.saved => NoDuplicates(history.record.tags))
    /\ [][\A c \in Callers :
            LET call == history.calls[c]
            IN  /\ ( /\ call.pc = "start"
                     /\ call.op = "addTag"
                     /\ Includes(history.record.tags, call.arg)
                     /\ history'.calls[c].pc # "start" )
                       => Returns(c) /\ history'.record = history.record
                /\ ( /\ Returns(c)
                     /\ call.op = "removeTag"
                     /\ ~call.overlapped )
                       => ~Includes(history'.record.tags, call.arg)]_vars

\* an overlapped addTag has just returned after writing a record that holds
\* two tags, with another call still in flight
C30_Witness ==
    /\ history.last.op = "addTag"
    /\ history.last.overlapped
    /\ history.last.wrote
    /\ Len(history.record.tags) = 2
    /\ \E c \in Callers : InFlight(c)

====
